---- MODULE Spec2Model ----
(***************************************************************************)
(* Trust scoring backend: wallet analyzer (analyzer.py), score calculator  *)
(* (ai-engine/scoring.py) and the POST /trust-score handler (main.py).     *)
(*                                                                         *)
(* Numbers.  Python floats are IEEE-754 binary64.  A non-negative float    *)
(* below 512 is modelled exactly as an integer count of units of 2^-57,    *)
(* held in three limbs <<hi, mid, lo>> of 22 bits each; every float        *)
(* operation computes the exact result and rounds it to 53 significant     *)
(* bits, ties to even, as the hardware does.  activity_score, which the    *)
(* analyzer rounds to one decimal, is carried as an integer number of      *)
(* tenths and converted to the nearest double where the scorer reads it.   *)
(***************************************************************************)
EXTENDS Integers, Sequences, FiniteSets, TLC

VARIABLES
    now,            \* int(time.time()) seen by the current call
    sha256,         \* hashlib.sha256(..).hexdigest()[:8] of every string hashed so far
    wallet,         \* the wallet argument / body.wallet of the current call
    txs,            \* list returned by get_recent_transactions (block_time per record)
    fetch,          \* outcome of get_recent_transactions: "ok", "ValueError", "Exception"; "none" before
    metrics,        \* WalletMetrics of the current call, or None
    result,         \* (score, risk_level) returned by compute_trust_score, or None
    db,             \* rows of trust_history
    response,       \* HTTP status of the current request, 0 before any request
    calls,          \* collaborators called by the current request, in order
    tx_count,       \* argument of _tx_count_to_activity_score (unit specification)
    activity_score, \* its return value in tenths, or None
    pc              \* position of the driver of the specification

vars == <<now, sha256, wallet, txs, fetch, metrics, result, db, response,
          calls, tx_count, activity_score, pc>>

\* Python None: an integer no block_time, count or score can equal
None == -1

----------------------------------------------------------------------------
(* binary64 arithmetic *)

LimbBits == 22
UnitBits == 57
MantissaBits == 53

RECURSIVE Pow2(_)
Pow2(k) == IF k = 0 THEN 1 ELSE 2 * Pow2(k - 1)

LimbBase == Pow2(LimbBits)

RECURSIVE BitLen(_)
BitLen(x) == IF x = 0 THEN 0 ELSE 1 + BitLen(x \div 2)

\* carry propagation: the limbs of hi*B^2 + mid*B + lo
Norm3(h, m, l) ==
    LET m1 == m + (l \div LimbBase)
    IN  <<h + (m1 \div LimbBase), m1 % LimbBase, l % LimbBase>>

FloatBits(f) ==
    IF f[1] > 0 THEN 2 * LimbBits + BitLen(f[1])
    ELSE IF f[2] > 0 THEN LimbBits + BitLen(f[2])
    ELSE BitLen(f[3])

\* round an exact value to 53 significant bits, ties to even; sticky says
\* that the exact value has non-zero bits below the unit
Round53(f, sticky) ==
    LET d == FloatBits(f) - MantissaBits
    IN  IF d <= 0 THEN f
        ELSE LET q    == Pow2(d)
                 r    == f[3] % q
                 half == q \div 2
                 odd  == ((f[3] \div q) % 2) = 1
                 up   == \/ r > half
                         \/ r = half /\ sticky
                         \/ r = half /\ ~sticky /\ odd
             IN  Norm3(f[1], f[2], (f[3] - r) + (IF up THEN q ELSE 0))

\* floor(p/q) in units of 2^-57, by long division over the limbs
RatioFloor(p, q) ==
    LET h0 == p * Pow2(UnitBits - 2 * LimbBits)
        r1 == h0 % q
        r2 == (r1 * LimbBase) % q
    IN  <<h0 \div q, (r1 * LimbBase) \div q, (r2 * LimbBase) \div q>>

\* whether that division leaves a remainder
RatioInexact(p, q) ==
    LET h0 == p * Pow2(UnitBits - 2 * LimbBits)
        r1 == h0 % q
        r2 == (r1 * LimbBase) % q
    IN  (r2 * LimbBase) % q # 0

\* the double nearest to p/q (a float literal, or the float round(x, 1) returns)
FromRatio(p, q) == Round53(RatioFloor(p, q), RatioInexact(p, q))

\* f * k for a float k holding a small non-negative integer
FMulInt(f, k) == Round53(Norm3(f[1] * k, f[2] * k, f[3] * k), FALSE)

\* f * 0.5: a power-of-two scaling, exact
FHalf(f) ==
    <<f[1] \div 2,
      (f[2] + (f[1] % 2) * LimbBase) \div 2,
      (f[3] + (f[2] % 2) * LimbBase) \div 2>>

FAdd(f, g) == Round53(Norm3(f[1] + g[1], f[2] + g[2], f[3] + g[3]), FALSE)

\* builtin round(float) -> int: nearest integer, ties to even
PyRound(f) ==
    LET one  == Pow2(UnitBits - 2 * LimbBits)
        i    == f[1] \div one
        fr   == f[1] % one
        half == one \div 2
        gt   == fr > half \/ (fr = half /\ (f[2] > 0 \/ f[3] > 0))
        eq   == fr = half /\ f[2] = 0 /\ f[3] = 0
    IN  IF gt \/ (eq /\ i % 2 = 1) THEN i + 1 ELSE i

Min(a, b) == IF a <= b THEN a ELSE b
Max(a, b) == IF a >= b THEN a ELSE b

----------------------------------------------------------------------------
(* ai-engine/scoring.py *)

WEIGHT_AGE == FromRatio(30, 100)
WEIGHT_ACTIVITY == FromRatio(50, 100)
WEIGHT_RISK == FromRatio(20, 100)
AGE_SCORE_PER_MONTH == 4
AGE_CAP_MONTHS == 25
PENALTY_PER_FLAG == 25
THRESHOLD_LOW == 70
THRESHOLD_MEDIUM == 40

\* slip: the cap at 100 is forgotten
age_component_uncapped(m) == m.wallet_age_months * AGE_SCORE_PER_MONTH

\* age_component = min(100.0, wallet_age_months * AGE_SCORE_PER_MONTH)
age_component(m) == Min(100, m.wallet_age_months * AGE_SCORE_PER_MONTH)

\* risk_component = max(0.0, 100.0 - suspicious_behavior_count * PENALTY_PER_FLAG)
risk_component(m) == Max(0, 100 - m.suspicious_behavior_count * PENALTY_PER_FLAG)

\* score_float, evaluated left to right in binary64
score_float(m) ==
    FAdd(FAdd(FMulInt(WEIGHT_AGE, age_component(m)),
              FHalf(FromRatio(m.activity_score, 10))),
         FMulInt(WEIGHT_RISK, risk_component(m)))

score_of(m) == Max(0, Min(100, PyRound(score_float(m))))

\* slip: thresholds compared with > instead of >=
risk_level_of_strict(score) ==
    IF score > THRESHOLD_LOW THEN "Low"
    ELSE IF score > THRESHOLD_MEDIUM THEN "Medium"
    ELSE "High"

risk_level_of(score) ==
    IF score >= THRESHOLD_LOW THEN "Low"
    ELSE IF score >= THRESHOLD_MEDIUM THEN "Medium"
    ELSE "High"

compute_trust_score(m) ==
    LET score == score_of(m)
    IN  [score |-> score, risk_level |-> risk_level_of(score)]

----------------------------------------------------------------------------
(* analyzer.py *)

TX_COUNT_FOR_FULL_ACTIVITY == 100
ACTIVITY_LEVEL_LOW_THRESHOLD == 400     \* 40.0, in tenths
ACTIVITY_LEVEL_HIGH_THRESHOLD == 700    \* 70.0, in tenths
HIGH_CHURN_ACTIVITY == 800              \* 80.0, in tenths
SECONDS_PER_MONTH == 30 * 24 * 3600
MOCK_AGE_CAP_MONTHS == 24
RISK_NEW_WALLET == "new_wallet"
RISK_LOW_ACTIVITY == "low_activity"
RISK_HIGH_CHURN == "high_churn"
RISK_SUSPICIOUS_PATTERNS == "suspicious_patterns"

\* exact natural numbers beyond 2^31: little-endian limbs, base 10^4
BigBase == 10000

RECURSIVE BigMulCarry(_, _, _)
BigMulCarry(a, k, c) ==
    IF a = <<>>
    THEN IF c = 0 THEN <<>> ELSE <<c % BigBase>> \o BigMulCarry(a, k, c \div BigBase)
    ELSE LET p == Head(a) * k + c
         IN  <<p % BigBase>> \o BigMulCarry(Tail(a), k, p \div BigBase)

BigMul(a, k) == BigMulCarry(a, k, 0)

RECURSIVE BigLessFrom(_, _, _)
BigLessFrom(a, b, i) ==
    IF i = 0 THEN FALSE
    ELSE IF a[i] # b[i] THEN a[i] < b[i]
    ELSE BigLessFrom(a, b, i - 1)

BigLess(a, b) ==
    IF Len(a) # Len(b) THEN Len(a) < Len(b) ELSE BigLessFrom(a, b, Len(a))

BigPow5(x) == BigMul(BigMul(BigMul(BigMul(<<x>>, x), x), x), x)

\* 100.0 * (tx_count / 100) ** 0.6 lies below t + 0.05 tenths, that is
\* (tx_count/100)^3 < ((2t + 1) / 2000)^5, cleared of denominators
BelowHalfStep(n, t) ==
    BigLess(BigMul(BigMul(BigMul(BigMul(BigMul(BigMul(<<32>>, n), n), n),
                                 1000), 1000), 1000),
            BigPow5(2 * t + 1))

RECURSIVE LeastTenth(_, _, _)
LeastTenth(n, lo, hi) ==
    IF lo >= hi THEN lo
    ELSE LET mid == (lo + hi) \div 2
         IN  IF BelowHalfStep(n, mid) THEN LeastTenth(n, lo, mid)
             ELSE LeastTenth(n, mid + 1, hi)

\* slip: the exponent is forgotten, 100.0 * ratio
CurveTenthsLinear(n) == 10 * n

\* round(100.0 * ratio ** 0.6, 1), in tenths (no tx_count in 1..99 lies
\* within float error of a rounding boundary)
CurveTenths(n) == LeastTenth(n, 0, 10 * TX_COUNT_FOR_FULL_ACTIVITY)

CurveTable == [n \in 1..(TX_COUNT_FOR_FULL_ACTIVITY - 1) |-> CurveTenths(n)]

tx_count_to_activity_score(n) ==
    IF n <= 0 THEN 0
    ELSE IF n >= TX_COUNT_FOR_FULL_ACTIVITY THEN 1000
    ELSE Min(1000, CurveTable[n])

activity_score_to_level(score) ==
    IF score < ACTIVITY_LEVEL_LOW_THRESHOLD THEN "low"
    ELSE IF score >= ACTIVITY_LEVEL_HIGH_THRESHOLD THEN "high"
    ELSE "medium"

\* times = [i.block_time for i in infos if i.block_time is not None]
BlockTimes(infos) == SelectSeq([i \in 1..Len(infos) |-> infos[i].block_time],
                               LAMBDA t : t # None)

\* min(times)
SeqMin(s) == s[CHOOSE i \in 1..Len(s) : \A j \in 1..Len(s) : s[i] <= s[j]]

\* slip: the first (newest) timestamp is taken instead of the minimum
oldest_block_time_first(infos) ==
    LET times == BlockTimes(infos)
    IN  IF times # <<>> THEN times[1] ELSE None

oldest_block_time(infos) ==
    LET times == BlockTimes(infos)
    IN  IF times # <<>> THEN SeqMin(times) ELSE None

\* int((now - oldest_ts) / SECONDS_PER_MONTH): the quotient of two integers
\* below 2^31 is far from the next integer unless it is one, so truncating
\* the float quotient is the integer floor division
wallet_age_months(oldest_ts, clock) ==
    IF oldest_ts = None THEN 0
    ELSE IF clock <= oldest_ts THEN 0
    ELSE Max(0, (clock - oldest_ts) \div SECONDS_PER_MONTH)

Whitespace == {" ", "\t", "\n"}

RECURSIVE LStrip(_)
LStrip(s) == IF s # <<>> /\ Head(s) \in Whitespace THEN LStrip(Tail(s)) ELSE s

RECURSIVE RStrip(_)
RStrip(s) ==
    IF s # <<>> /\ s[Len(s)] \in Whitespace THEN RStrip(SubSeq(s, 1, Len(s) - 1))
    ELSE s

\* str.strip()
Strip(s) == RStrip(LStrip(s))

\* the string _mock_wallet_age_months hashes
mock_hash_input(w) == Strip(w)

\* slip: the leading byte of the digest is used unreduced, int(h[:2], 16)
mock_wallet_age_months_byte(w, sha) == sha[mock_hash_input(w)][1] \div 256

\* int(h[:8], 16) % (MOCK_AGE_CAP_MONTHS + 1); the 32-bit prefix is held as
\* two 16-bit halves <<hi, lo>>
mock_wallet_age_months(w, sha) ==
    LET h == sha[mock_hash_input(w)]
        m == MOCK_AGE_CAP_MONTHS + 1
    IN  ((h[1] % m) * (65536 % m) + h[2]) % m

\* slip: the checks are chained with elif, so at most one flag is raised
compute_risk_flags_elif(n, age, score) ==
    IF age < 3 THEN <<RISK_NEW_WALLET>>
    ELSE IF n < 5 THEN <<RISK_LOW_ACTIVITY>>
    ELSE IF score >= HIGH_CHURN_ACTIVITY /\ age < 6 THEN <<RISK_HIGH_CHURN>>
    ELSE IF n > 0 /\ n % 17 = 0 /\ age < 12 THEN <<RISK_SUSPICIOUS_PATTERNS>>
    ELSE <<>>

\* slip: the new_wallet comparison is inverted
compute_risk_flags_inverted(n, age, score) ==
    (IF age > 3 THEN <<RISK_NEW_WALLET>> ELSE <<>>)
    \o (IF n < 5 THEN <<RISK_LOW_ACTIVITY>> ELSE <<>>)
    \o (IF score >= HIGH_CHURN_ACTIVITY /\ age < 6 THEN <<RISK_HIGH_CHURN>> ELSE <<>>)
    \o (IF n > 0 /\ n % 17 = 0 /\ age < 12 THEN <<RISK_SUSPICIOUS_PATTERNS>> ELSE <<>>)

compute_risk_flags(n, age, score) ==
    (IF age < 3 THEN <<RISK_NEW_WALLET>> ELSE <<>>)
    \o (IF n < 5 THEN <<RISK_LOW_ACTIVITY>> ELSE <<>>)
    \o (IF score >= HIGH_CHURN_ACTIVITY /\ age < 6 THEN <<RISK_HIGH_CHURN>> ELSE <<>>)
    \o (IF n > 0 /\ n % 17 = 0 /\ age < 12 THEN <<RISK_SUSPICIOUS_PATTERNS>> ELSE <<>>)

\* analyze_wallet after get_recent_transactions returned infos
analyze_wallet(w, infos, clock, sha) ==
    LET wal    == Strip(w)
        n      == Len(infos)
        oldest == oldest_block_time(infos)
        age    == IF oldest # None THEN wallet_age_months(oldest, clock)
                  ELSE mock_wallet_age_months(wal, sha)
        score  == tx_count_to_activity_score(n)
        flags  == compute_risk_flags(n, age, score)
    IN  [tx_count |-> n,
         wallet_age_months |-> age,
         activity_score |-> score,
         activity_level |-> activity_score_to_level(score),
         suspicious_behavior_count |-> Len(flags),
         risk_flags |-> flags]

----------------------------------------------------------------------------
(* inputs *)

MAX_SIGNATURES_LIMIT == 100     \* rpc_client.py: at most this many records
MaxMonths == 13                 \* the clock runs this many months past T0
MaxDigestLow == 24              \* low halves of the sampled digest prefixes
MaxAge == 30                    \* wallet_age_months of hand-built metrics
MaxCount == 5                   \* suspicious_behavior_count of hand-built metrics
MaxActivity == 1000             \* activity_score 100.0, in tenths
MaxTx == 102                    \* tx_count arguments of the activity curve
MaxNegTx == 2                   \* and this many below zero
MaxRows == 2                    \* rows of trust_history
MaxHttpTx == 1                  \* records fetched by an HTTP request
T0 == 1700000000                \* block_time of the oldest transaction
BlockGap == 60                  \* seconds between consecutive transactions

Instants ==
    {T0 + k * SECONDS_PER_MONTH + d : k \in 0..MaxMonths, d \in {-1, 0}}

FirstInstant == T0 - 1

LaterInstants(t) == {u \in Instants : u > t}

NextInstant(t) == CHOOSE u \in LaterInstants(t) : \A v \in LaterInstants(t) : u <= v

\* what getSignaturesForAddress returns, newest first; block_time may be None
TxList(n, pattern) ==
    [i \in 1..n |->
        [signature  |-> i,
         block_time |-> IF pattern = "none" \/ (pattern = "some" /\ i % 2 = 1)
                        THEN None
                        ELSE T0 + (n - i) * BlockGap]]

Patterns == {"all", "some", "none"}

TxLists == {TxList(n, p) : n \in 0..MAX_SIGNATURES_LIMIT, p \in Patterns}

HttpTxLists == {TxList(n, p) : n \in 0..MaxHttpTx, p \in Patterns}

\* one address, with and without surrounding whitespace
WalletArgs == {<<"a", "b">>, <<" ", "a", "b", "\n">>}

\* body.wallet: pydantic min_length=1 admits a blank string
BodyWallets == WalletArgs \cup {<<" ">>}

\* first 8 hex digits of a SHA-256 digest, as 16-bit halves
DigestSamples == {<<0, lo>> : lo \in 0..MaxDigestLow} \cup {<<65535, 65535>>}

\* hashlib.sha256 is a function of its input: the prefix of a string is
\* drawn when the string is first hashed and is the same ever after
Hashed(sha, w, infos) ==
    LET key == mock_hash_input(Strip(w))
    IN  IF oldest_block_time(infos) # None \/ key \in DOMAIN sha
        THEN {sha}
        ELSE {sha @@ (key :> d) : d \in DigestSamples}

----------------------------------------------------------------------------
(* compute_trust_score on hand-built WalletMetrics *)

InitScore ==
    /\ pc = "score_input"
    /\ metrics \in [wallet_age_months : 0..MaxAge,
                    activity_score : 0..MaxActivity,
                    suspicious_behavior_count : 0..MaxCount]
    /\ result = None
    /\ now = 0 /\ sha256 = <<>> /\ wallet = <<>> /\ txs = <<>> /\ fetch = "none"
    /\ db = <<>> /\ response = 0 /\ calls = <<>>
    /\ tx_count = 0 /\ activity_score = None

Score ==
    /\ pc = "score_input"
    /\ result' = compute_trust_score(metrics)
    /\ pc' = "scored"
    /\ UNCHANGED <<now, sha256, wallet, txs, fetch, metrics, db, response,
                   calls, tx_count, activity_score>>

\* a second call on metrics one month older, all else equal
ScoreOlder ==
    /\ pc \in {"scored", "rescored"}
    /\ metrics.wallet_age_months < MaxAge
    /\ metrics' = [metrics EXCEPT !.wallet_age_months = @ + 1]
    /\ result' = compute_trust_score(metrics')
    /\ pc' = "rescored"
    /\ UNCHANGED <<now, sha256, wallet, txs, fetch, db, response, calls,
                   tx_count, activity_score>>

NextScore == Score \/ ScoreOlder

SpecScore == InitScore /\ [][NextScore]_vars

----------------------------------------------------------------------------
(* _tx_count_to_activity_score on its own *)

InitActivity ==
    /\ pc = "activity_input"
    /\ tx_count \in (0 - MaxNegTx)..MaxTx
    /\ activity_score = None
    /\ now = 0 /\ sha256 = <<>> /\ wallet = <<>> /\ txs = <<>> /\ fetch = "none"
    /\ metrics = None /\ result = None
    /\ db = <<>> /\ response = 0 /\ calls = <<>>

Activity ==
    /\ pc = "activity_input"
    /\ activity_score' = tx_count_to_activity_score(tx_count)
    /\ pc' = "activity_done"
    /\ UNCHANGED <<now, sha256, wallet, txs, fetch, metrics, result, db,
                   response, calls, tx_count>>

NextActivity == Activity

SpecActivity == InitActivity /\ [][NextActivity]_vars

----------------------------------------------------------------------------
(* analyze_wallet then compute_trust_score *)

InitAnalyze ==
    /\ pc = "analyze_input"
    /\ now = FirstInstant
    /\ wallet \in WalletArgs
    /\ txs \in TxLists
    /\ sha256 = <<>>
    /\ metrics = None /\ result = None
    /\ fetch = "none" /\ db = <<>> /\ response = 0 /\ calls = <<>>
    /\ tx_count = 0 /\ activity_score = None

Analyze ==
    /\ pc = "analyze_input"
    /\ \E sha \in Hashed(sha256, wallet, txs) :
          /\ sha256' = sha
          /\ metrics' = analyze_wallet(wallet, txs, now, sha)
    /\ result' = compute_trust_score(metrics')
    /\ pc' = "analyzed"
    /\ UNCHANGED <<now, wallet, txs, fetch, db, response, calls, tx_count,
                   activity_score>>

\* the same address is analysed again later; the chain returns the same records
Reanalyze ==
    /\ pc = "analyzed"
    /\ LaterInstants(now) # {}
    /\ now' = NextInstant(now)
    /\ wallet' \in {w \in WalletArgs : Strip(w) = Strip(wallet)}
    /\ \E sha \in Hashed(sha256, wallet', txs) :
          /\ sha256' = sha
          /\ metrics' = analyze_wallet(wallet', txs, now', sha)
    /\ result' = compute_trust_score(metrics')
    /\ UNCHANGED <<txs, fetch, db, response, calls, tx_count, activity_score, pc>>

NextAnalyze == Analyze \/ Reanalyze

SpecAnalyze == InitAnalyze /\ [][NextAnalyze]_vars

----------------------------------------------------------------------------
(* main.py: POST /trust-score.  The handler awaits nothing, so a request   *)
(* runs to its response without interleaving; each action below is one     *)
(* whole request, told apart by where the handler leaves.                  *)

HttpNow == T0 + 5 * SECONDS_PER_MONTH

Init ==
    /\ pc = "serving"
    /\ now = HttpNow
    /\ sha256 = <<>>
    /\ wallet = <<>> /\ txs = <<>> /\ fetch = "none"
    /\ metrics = None /\ result = None
    /\ db = <<>>
    /\ response = 0
    /\ calls = <<>>
    /\ tx_count = 0 /\ activity_score = None

\* insert_trust_record: one row appended to trust_history
insert_trust_record(rows, w, r, m, clock) ==
    Append(rows, [wallet            |-> w,
                  trust_score       |-> r.score,
                  risk_level        |-> r.risk_level,
                  timestamp         |-> clock,
                  tx_count          |-> m.tx_count,
                  wallet_age_months |-> m.wallet_age_months,
                  activity_score    |-> m.activity_score,
                  risk_flags        |-> m.risk_flags])

\* wallet = body.wallet.strip(); if not wallet: raise HTTPException(400)
RejectBlankWallet(w) ==
    /\ Strip(w) = <<>>
    /\ wallet' = w
    /\ response' = 400
    /\ calls' = <<>>
    /\ fetch' = "none" /\ txs' = <<>> /\ metrics' = None /\ result' = None
    /\ UNCHANGED <<now, sha256, db, tx_count, activity_score, pc>>

\* Pubkey.from_string fails: get_recent_transactions raises ValueError
RejectInvalidAddress(w) ==
    /\ Strip(w) # <<>>
    /\ wallet' = w
    /\ fetch' = "ValueError"
    /\ response' = 400
    /\ calls' = <<"analyze_wallet">>
    /\ txs' = <<>> /\ metrics' = None /\ result' = None
    /\ UNCHANGED <<now, sha256, db, tx_count, activity_score, pc>>

\* slip: the failure is swallowed and the wallet scored on an empty list
RpcUnavailableScoredAsEmpty(w) ==
    /\ Strip(w) # <<>>
    /\ Len(db) < MaxRows
    /\ wallet' = w
    /\ fetch' = "Exception"
    /\ txs' = <<>>
    /\ \E sha \in Hashed(sha256, Strip(w), <<>>) :
          /\ sha256' = sha
          /\ metrics' = analyze_wallet(Strip(w), <<>>, now, sha)
    /\ result' = compute_trust_score(metrics')
    /\ db' = insert_trust_record(db, Strip(w), result', metrics', now)
    /\ response' = 200
    /\ calls' = <<"analyze_wallet", "compute_trust_score", "insert_trust_record">>
    /\ UNCHANGED <<now, tx_count, activity_score, pc>>

\* the RPC call raises anything else
RpcUnavailable(w) ==
    /\ Strip(w) # <<>>
    /\ wallet' = w
    /\ fetch' = "Exception"
    /\ response' = 503
    /\ calls' = <<"analyze_wallet">>
    /\ txs' = <<>> /\ metrics' = None /\ result' = None
    /\ UNCHANGED <<now, sha256, db, tx_count, activity_score, pc>>

\* the fetch returns infos: analyse, score, store, respond 200
Scored(w, infos) ==
    /\ Strip(w) # <<>>
    /\ Len(db) < MaxRows
    /\ wallet' = w
    /\ fetch' = "ok"
    /\ txs' = infos
    /\ \E sha \in Hashed(sha256, Strip(w), infos) :
          /\ sha256' = sha
          /\ metrics' = analyze_wallet(Strip(w), infos, now, sha)
    /\ result' = compute_trust_score(metrics')
    /\ db' = insert_trust_record(db, Strip(w), result', metrics', now)
    /\ response' = 200
    /\ calls' = <<"analyze_wallet", "compute_trust_score", "insert_trust_record">>
    /\ UNCHANGED <<now, tx_count, activity_score, pc>>

Next ==
    \/ \E w \in BodyWallets : RejectBlankWallet(w)
    \/ \E w \in BodyWallets : RejectInvalidAddress(w)
    \/ \E w \in BodyWallets : RpcUnavailable(w)
    \/ \E w \in BodyWallets, infos \in HttpTxLists : Scored(w, infos)

Spec == Init /\ [][Next]_vars

----------------------------------------------------------------------------
(* properties *)

HasScore == pc \in {"scored", "rescored"}

\* C1: for every WalletMetrics with wallet_age_months >= 0, activity_score in
\* [0, 100] and suspicious_behavior_count >= 0, compute_trust_score returns
\* an integer score in 0..100, and the risk level is Low exactly when the
\* score is >= 70, Medium exactly when 40 <= score < 70, High exactly when
\* the score is < 40.
C1_ScoreRangeAndBands ==
    HasScore =>
        /\ result.score \in 0..100
        /\ (result.risk_level = "Low") <=> (result.score >= 70)
        /\ (result.risk_level = "Medium") <=> (40 <= result.score /\ result.score < 70)
        /\ (result.risk_level = "High") <=> (result.score < 40)

C1_Witness ==
    /\ pc = "scored"
    /\ result.score = 70
    /\ result.risk_level = "Low"

\* round(n / 20) to the nearest integer, ties to even, for an integer n >= 0
RoundHalfEven20(n) ==
    LET q == n \div 20
        r == n % 20
    IN  IF r > 10 \/ (r = 10 /\ q % 2 = 1) THEN q + 1 ELSE q

\* 20 * (0.30*age_component + 0.50*activity_score + 0.20*risk_component),
\* in exact arithmetic, activity_score being a number of tenths
Raw20(m) ==
    6 * Min(100, m.wallet_age_months * 4)
    + m.activity_score
    + 4 * Max(0, 100 - m.suspicious_behavior_count * 25)

FloatLess(f, g) ==
    \/ f[1] < g[1]
    \/ f[1] = g[1] /\ f[2] < g[2]
    \/ f[1] = g[1] /\ f[2] = g[2] /\ f[3] < g[3]

\* sign of (the double holding t tenths) - t/10
TenthError(t) ==
    LET exact == RatioFloor(t, 10)
        held  == FromRatio(t, 10)
    IN  IF FloatLess(exact, held) THEN 1
        ELSE IF FloatLess(held, exact) THEN -1
        ELSE IF RatioInexact(t, 10) THEN -1 ELSE 0

\* the formula rounded when activity_score is read as the binary value the
\* float holds: an exact half in decimal is then just above or below it
RoundBinaryReading(m) ==
    LET n == Raw20(m)
        e == TenthError(m.activity_score)
    IN  IF n % 20 = 10 /\ e # 0
        THEN (n \div 20) + (IF e > 0 THEN 1 ELSE 0)
        ELSE RoundHalfEven20(n)

Clamp(x) == Max(0, Min(100, x))

C6_AgeMonotone ==
    [][(/\ HasScore /\ pc' = "rescored"
        /\ metrics'.activity_score = metrics.activity_score
        /\ metrics'.suspicious_behavior_count = metrics.suspicious_behavior_count
        /\ metrics.wallet_age_months <= metrics'.wallet_age_months)
       => /\ result.score <= result'.score
          /\ (metrics.wallet_age_months >= 25 => result'.score = result.score)]_vars

C6_Witness ==
    /\ pc = "rescored"
    /\ metrics.wallet_age_months = 26
    /\ metrics.activity_score = 0
    /\ metrics.suspicious_behavior_count = 0
    /\ result.score = 50

\* t tenths is 100 * (n/100)^0.6 rounded to one decimal place
IsNearestTenth(n, t) ==
    /\ BelowHalfStep(n, t)
    /\ t = 0 \/ ~BelowHalfStep(n, t - 1)

C8_Others ==
    /\ tx_count <= 0 => activity_score = 0
    /\ tx_count >= 100 => activity_score = 1000
    /\ (0 < tx_count /\ tx_count < 100)
       => (IsNearestTenth(tx_count, activity_score) /\ activity_score <= 1000)

\* C8: tx_count <= 0 maps to 0.0, tx_count >= 100 to 100.0, tx_count = 50 to
\* 65.3; for 0 < tx_count < 100 the result is 100*(tx_count/100)^0.6 rounded
\* to one decimal place and never exceeds 100.0.
C8_Boundaries ==
    pc = "activity_done" =>
        /\ C8_Others
        /\ tx_count = 50 => activity_score = 653

\* C8 (amended): as above, but tx_count = 50 maps to 66.0.
C8_BoundariesAmended ==
    pc = "activity_done" =>
        /\ C8_Others
        /\ tx_count = 50 => activity_score = 660

C8_Witness ==
    /\ pc = "activity_done"
    /\ tx_count = 50
    /\ activity_score = 660

AllFlags ==
    <<RISK_NEW_WALLET, RISK_LOW_ACTIVITY, RISK_HIGH_CHURN, RISK_SUSPICIOUS_PATTERNS>>

FlagSet(flags) == {flags[i] : i \in 1..Len(flags)}

\* the documented condition of each flag, on a WalletMetrics
FlagHolds(m, flag) ==
    IF flag = RISK_NEW_WALLET THEN m.wallet_age_months < 3
    ELSE IF flag = RISK_LOW_ACTIVITY THEN m.tx_count < 5
    ELSE IF flag = RISK_HIGH_CHURN
         THEN m.activity_score >= 800 /\ m.wallet_age_months < 6
    ELSE m.tx_count > 0 /\ m.tx_count % 17 = 0 /\ m.wallet_age_months < 12

\* C4: for every WalletMetrics produced by analyze_wallet, risk_flags is
\* exactly the subsequence of [new_wallet, low_activity, high_churn,
\* suspicious_patterns], in that order, of the flags whose conditions hold,
\* and suspicious_behavior_count equals len(risk_flags).
C4_FlagsAreTheHoldingConditions ==
    pc = "analyzed" =>
        /\ metrics.risk_flags
             = SelectSeq(AllFlags, LAMBDA flag : FlagHolds(metrics, flag))
        /\ metrics.suspicious_behavior_count = Len(metrics.risk_flags)

C4_Witness ==
    /\ pc = "analyzed"
    /\ metrics.risk_flags
         = <<RISK_NEW_WALLET, RISK_HIGH_CHURN, RISK_SUSPICIOUS_PATTERNS>>
    /\ metrics.suspicious_behavior_count = 3

TimesOf(infos) == {infos[i].block_time : i \in 1..Len(infos)} \ {None}

\* k = floor(x / SECONDS_PER_MONTH), by its defining inequalities
IsWholeMonths(k, x) ==
    k * SECONDS_PER_MONTH <= x /\ x < (k + 1) * SECONDS_PER_MONTH

C5_Age ==
    pc = "analyzed" =>
        /\ metrics.wallet_age_months >= 0
        /\ IF TimesOf(txs) # {}
           THEN LET oldest == CHOOSE t \in TimesOf(txs) : \A u \in TimesOf(txs) : t <= u
                IN  IF now <= oldest THEN metrics.wallet_age_months = 0
                    ELSE IsWholeMonths(metrics.wallet_age_months, now - oldest)
           ELSE metrics.wallet_age_months \in 0..24

C5_Stable ==
    (/\ pc = "analyzed" /\ pc' = "analyzed"
     /\ TimesOf(txs) = {} /\ TimesOf(txs') = {}
     /\ Strip(wallet') = Strip(wallet))
    => metrics'.wallet_age_months = metrics.wallet_age_months

\* C5: when some fetched record has a block_time, wallet_age_months is
\* floor((now - oldest_ts) / (30*24*3600)) for the minimum block_time, and 0
\* when now <= oldest_ts; when none has, it is the mock age, which lies in
\* [0, 24] and is the same on every call for the same trimmed address.  It
\* is never negative.
C5_WalletAge == []C5_Age /\ [][C5_Stable]_vars

C5_Witness ==
    /\ pc = "analyzed"
    /\ \E i \in 1..Len(txs) : txs[i].block_time = None
    /\ TimesOf(txs) # {}
    /\ Len(txs) >= 2
    /\ now = T0 + 12 * SECONDS_PER_MONTH
    /\ metrics.wallet_age_months = 12

\* every flag set some tx_count and wallet_age_months derive, the activity
\* score being the one the analyzer computes from tx_count
Derivable ==
    {FlagSet(compute_risk_flags(n, a, tx_count_to_activity_score(n))) :
        n \in 0..MaxTx, a \in 0..MaxAge}

\* C7: every one of the 16 subsets of the four flags is the flag set of some
\* tx_count >= 0 and wallet_age_months >= 0: whatever flags an analysis
\* raised, any other subset fires on other inputs.
C7_AnySubsetFires ==
    pc = "analyzed" =>
        \A S \in SUBSET FlagSet(AllFlags) :
            S # FlagSet(metrics.risk_flags) => S \in Derivable

\* the subsets that do not join low_activity with high_churn or with
\* suspicious_patterns
Realisable ==
    {S \in SUBSET FlagSet(AllFlags) :
        RISK_LOW_ACTIVITY \in S
            => (RISK_HIGH_CHURN \notin S /\ RISK_SUSPICIOUS_PATTERNS \notin S)}

RealisableFire == Derivable = Realisable

\* C7 (amended): exactly the 10 subsets that do not join low_activity with
\* high_churn or suspicious_patterns are flag sets of some tx_count and
\* wallet_age_months; each flag can fire alone.
C7_RealisableSubsetsFire ==
    /\ RealisableFire
    /\ Cardinality(Realisable) = 10
    /\ \A i \in 1..Len(AllFlags) : {AllFlags[i]} \in Realisable
    /\ pc = "analyzed" => FlagSet(metrics.risk_flags) \in Realisable

C7_Witness ==
    /\ pc = "analyzed"
    /\ metrics.risk_flags = <<RISK_HIGH_CHURN>>

Rank(level) == IF level = "High" THEN 0 ELSE IF level = "Medium" THEN 1 ELSE 2

\* C9: for a fixed wallet and a fixed list of records with at least one
\* block_time, running the pipeline again at a later time never gives a
\* smaller wallet_age_months, a flag that was not raised before, a larger
\* suspicious_behavior_count or a smaller score; the risk level only moves
\* High -> Medium -> Low.
C9_LaterNeverWorse ==
    [][(/\ pc = "analyzed" /\ pc' = "analyzed"
        /\ txs' = txs /\ TimesOf(txs) # {}
        /\ Strip(wallet') = Strip(wallet)
        /\ now' > now)
       => /\ metrics'.wallet_age_months >= metrics.wallet_age_months
          /\ FlagSet(metrics'.risk_flags) \subseteq FlagSet(metrics.risk_flags)
          /\ metrics'.suspicious_behavior_count <= metrics.suspicious_behavior_count
          /\ result'.score >= result.score
          /\ Rank(result'.risk_level) >= Rank(result.risk_level)]_vars

C9_Witness ==
    /\ pc = "analyzed"
    /\ now > FirstInstant
    /\ TimesOf(txs) # {}
    /\ Len(txs) = 100
    /\ metrics.wallet_age_months = 6
    /\ metrics.risk_flags = <<>>
    /\ result.risk_level = "Low"

\* C10: when the fetch returns zero records, tx_count = 0, activity_score =
\* 0.0, activity_level is low, low_activity is raised, high_churn and
\* suspicious_patterns are not, wallet_age_months is in [0, 24], the score is
\* at most 44 and the risk level is not Low.
C10_EmptyFetch ==
    (pc = "analyzed" /\ txs = <<>>) =>
        /\ metrics.tx_count = 0
        /\ metrics.activity_score = 0
        /\ metrics.activity_level = "low"
        /\ RISK_LOW_ACTIVITY \in FlagSet(metrics.risk_flags)
        /\ RISK_HIGH_CHURN \notin FlagSet(metrics.risk_flags)
        /\ RISK_SUSPICIOUS_PATTERNS \notin FlagSet(metrics.risk_flags)
        /\ metrics.wallet_age_months \in 0..24
        /\ result.score <= 44
        /\ result.risk_level \in {"Medium", "High"}

C10_Witness ==
    /\ pc = "analyzed"
    /\ txs = <<>>
    /\ metrics.wallet_age_months = 24
    /\ result.score = 44
    /\ result.risk_level = "Medium"

Called(name) == \E i \in 1..Len(calls) : calls[i] = name

\* C3: whenever the fetch fails, the request ends before scoring:
\* compute_trust_score and insert_trust_record are not called, no row is
\* written, and the status is 400 for a ValueError and 503 for any other
\* exception, never the 200 of a scored wallet.
C3_FetchFailureAborts ==
    [][fetch' \in {"ValueError", "Exception"}
       => /\ db' = db
          /\ ~Called("compute_trust_score")'
          /\ ~Called("insert_trust_record")'
          /\ response' = (IF fetch' = "ValueError" THEN 400 ELSE 503)]_vars

C3_Witness ==
    /\ fetch = "Exception"
    /\ response = 503
    /\ Len(db) = 1
    /\ db[1].tx_count = 0

====
